---- MODULE Spec2Model ----
(***************************************************************************)
(* Model of the faclon sensor API: the REST ingest and latest handlers     *)
(* (sensorController), the Sensor mongoose model, the MQTT adapter         *)
(* (config/mqtt.js) and the bootstrap (startServer).                       *)
(*                                                                         *)
(* Strings are sequences of symbols, so that length, split and parseFloat  *)
(* are computed.  A JSON value is a tagged record (Raw).                   *)
(***************************************************************************)
EXTENDS Integers, Sequences, FiniteSets, TLC

\* ------------------------------------------------------------------ bounds
MaxDocs == 2       \* documents constructed (new Sensor / Sensor.create) in a run
MaxClock == 3      \* last value of the server clock Date.now()

\* ------------------------------------------------------------- JSON values
Num(n) == [kind |-> "num", n |-> n, s |-> <<>>]
Str(s) == [kind |-> "str", n |-> 0, s |-> s]
Absent == [kind |-> "absent", n |-> 0, s |-> <<>>]
NaN == [kind |-> "nan", n |-> 0, s |-> <<>>]

\* ------------------------------------------------------------ input domains
DeviceNames == {<<"s1">>, <<"s2">>}
EmptyString == <<>>
ClockStart == 2
ClientTimestamps == {1}
Temperatures == {20, 101}

RestDeviceIds == {Absent, Str(EmptyString)} \cup {Str(d) : d \in DeviceNames}
RestTemperatures == {Absent, Str(<<"2">>)} \cup {Num(n) : n \in Temperatures}
RestTimestamps == {Absent} \cup {Num(t) : t \in ClientTimestamps}

BusTemperatures == {Absent, Num(20), Str(<<"2", "a">>), Str(<<"a">>)}
BusTimestamps == {Absent} \cup {Num(t) : t \in ClientTimestamps}
BodyKinds == {"object", "null", "garbage"}

\* topic of a message the subscription iot/sensor/+/temperature delivers:
\* the single-level wildcard matches any one level, the empty level included
TopicOf(d) == <<"iot", "/", "sensor", "/">> \o d \o <<"/", "temperature">>
BusTopics == {TopicOf(d) : d \in DeviceNames \cup {EmptyString}}

\* -------------------------------------------------------------------- state
VARIABLES
  pc,              \* position of startServer
  enableMqtt,      \* process.env.ENABLE_MQTT === "true"
  mongoConnected,  \* mongoose.connect has resolved
  mqttState,       \* the client setupMQTT creates: off, connecting, connected
  subscribed,      \* the broker holds the subscription of the current connection
  subscribeIssued, \* client.subscribe was called on the current connection
  listening,       \* app.listen was called
  now,             \* Date.now()
  nextId,          \* next generated document identifier
  store,           \* the Sensor collection, in order of insertion
  inflight,        \* documents whose save()/create() has not completed
  last             \* the last completed handler event: input, outcome, record

vars == <<pc, enableMqtt, mongoConnected, mqttState, subscribed, subscribeIssued,
          listening, now, nextId, store, inflight, last>>

NoRec == [id |-> 0, deviceId |-> <<>>, temperature |-> 0, timestamp |-> 0,
          createdAt |-> 0]
NoInput == [topic |-> <<>>, bodyKind |-> "none", deviceId |-> Absent,
            temperature |-> Absent, timestamp |-> Absent]
NoEvent == [kind |-> "none", outcome |-> "none", input |-> NoInput, t0 |-> 0,
            rec |-> NoRec]

\* --------------------------------------------------------- string functions
Digits == <<"0", "1", "2", "3", "4", "5", "6", "7", "8", "9">>
IsDigit(c) == \E i \in 1..10 : Digits[i] = c
DigitVal(c) == (CHOOSE i \in 1..10 : Digits[i] = c) - 1

\* String.prototype.split("/")
RECURSIVE SplitFrom(_, _, _)
SplitFrom(s, i, cur) ==
  IF i > Len(s) THEN <<cur>>
  ELSE IF s[i] = "/" THEN <<cur>> \o SplitFrom(s, i + 1, <<>>)
  ELSE SplitFrom(s, i + 1, Append(cur, s[i]))
Split(s) == SplitFrom(s, 1, <<>>)

\* String(n) for an integer n
RECURSIVE NatToString(_)
NatToString(n) ==
  IF n < 10 THEN <<Digits[n + 1]>>
  ELSE Append(NatToString(n \div 10), Digits[(n % 10) + 1])
NumberToString(n) == IF n < 0 THEN <<"-">> \o NatToString(0 - n) ELSE NatToString(n)

\* the longest prefix of s[i..] made of digits
RECURSIVE DigitPrefix(_, _)
DigitPrefix(s, i) ==
  IF i > Len(s) \/ ~IsDigit(s[i]) THEN <<>>
  ELSE <<s[i]>> \o DigitPrefix(s, i + 1)

RECURSIVE DigitsToNat(_, _)
DigitsToNat(ds, acc) ==
  IF ds = <<>> THEN acc ELSE DigitsToNat(Tail(ds), 10 * acc + DigitVal(Head(ds)))

\* parseFloat of a string: optional sign, then the leading digits; NaN if none
ParseFloatString(s) ==
  LET neg == Len(s) >= 1 /\ s[1] = "-"
      ds == DigitPrefix(s, IF neg THEN 2 ELSE 1)
  IN IF ds = <<>> THEN NaN
     ELSE Num(IF neg THEN 0 - DigitsToNat(ds, 0) ELSE DigitsToNat(ds, 0))

\* parseFloat(x) is parseFloat(String(x)); String(undefined) has no digits
ParseFloat(raw) ==
  CASE raw.kind = "num" -> ParseFloatString(NumberToString(raw.n))
    [] raw.kind = "str" -> ParseFloatString(raw.s)
    [] OTHER -> NaN

\* ------------------------------------------------- validation (controller)
\* z.string().min(1, ...)
ZodDeviceIdOk(raw) == raw.kind = "str" /\ Len(raw.s) >= 1
\* z.number({...})
ZodTemperatureOk(raw) == raw.kind = "num"
\* z.number().optional().default(() => Date.now())
ZodTimestampOk(raw) == raw.kind \in {"num", "absent"}
ZodTimestamp(raw, t) == IF raw.kind = "absent" THEN t ELSE raw.n

\* ingestSchema.parse(req.body): ok, or a ZodError
IngestSchemaOk(body) ==
  /\ ZodDeviceIdOk(body.deviceId)
  /\ ZodTemperatureOk(body.temperature)
  /\ ZodTimestampOk(body.timestamp)

\* ------------------------------------------------------ validation (model)
\* mutant: a required validator that lets the empty string pass
SchemaDeviceIdOk_AllowEmpty(raw) == raw.kind = "str"

\* deviceId: { type: String, required }: the required validator of a String
\* path fails on undefined and on the empty string
SchemaDeviceIdOk(raw) == raw.kind = "str" /\ Len(raw.s) > 0
\* temperature: { type: Number, required }: NaN does not cast to Number
SchemaTemperatureOk(raw) == raw.kind = "num"
\* document validation run by save() and create()
SensorSchemaOk(cand) ==
  /\ SchemaDeviceIdOk(cand.deviceId)
  /\ SchemaTemperatureOk(cand.temperature)

\* ---------------------------------------------------------------- the store
\* mutant: the handlers keep the document in a variable they share, so a save
\* writes the document built last
RecordOf_SharedDoc(op) ==
  LET o == CHOOSE x \in inflight : \A y \in inflight : y.id <= x.id
  IN [id |-> o.id, deviceId |-> o.cand.deviceId.s, temperature |-> o.cand.temperature.n,
      timestamp |-> o.cand.timestamp, createdAt |-> o.createdAt]

\* the record a successful save() of a document writes
RecordOf(op) ==
  [id |-> op.id, deviceId |-> op.cand.deviceId.s, temperature |-> op.cand.temperature.n,
   timestamp |-> op.cand.timestamp, createdAt |-> op.createdAt]

StoreRecords == {store[i] : i \in 1..Len(store)}
\* mutant: the query has no deviceId filter, findOne({})
RecordsOf_AnyDevice(d) == StoreRecords

\* the documents matching the filter { deviceId }
RecordsOf(d) == {r \in StoreRecords : r.deviceId = d}

\* mutant: a save keyed on (deviceId, timestamp) that replaces the stored record
InsertOne_Upsert(st, rec) ==
  IF \E i \in 1..Len(st) : st[i].deviceId = rec.deviceId /\ st[i].timestamp = rec.timestamp
  THEN [i \in 1..Len(st) |->
          IF st[i].deviceId = rec.deviceId /\ st[i].timestamp = rec.timestamp
          THEN rec ELSE st[i]]
  ELSE Append(st, rec)

\* mutant: a capped collection of one document, the oldest is dropped
InsertOne_Capped(st, rec) == IF st = <<>> THEN <<rec>> ELSE Append(Tail(st), rec)

\* the collection after save()/create() wrote the document: the schema declares
\* no unique index, every document is added
InsertOne(st, rec) == Append(st, rec)

\* mutant: the sort direction reversed, sort({ timestamp: 1 })
FindOneSorted_Ascending(d) ==
  {r \in RecordsOf(d) : \A q \in RecordsOf(d) : q.timestamp >= r.timestamp}

\* Sensor.findOne({ deviceId }).sort({ timestamp: -1 }).limit(1): the documents
\* the query may return; the order of documents with equal sort keys is not
\* defined, so any document holding the greatest timestamp may come first
FindOneSorted(d) ==
  {r \in RecordsOf(d) : \A q \in RecordsOf(d) : q.timestamp <= r.timestamp}

\* t0 is Date.now() when the handler ran, recorded with a persisted record
Event(kind, outcome, input, t0, rec) ==
  [kind |-> kind, outcome |-> outcome, input |-> input, t0 |-> t0, rec |-> rec]

\* --------------------------------------------------------------------- Init
Init ==
  /\ pc = "connect"
  /\ enableMqtt \in BOOLEAN
  /\ mongoConnected = FALSE
  /\ mqttState = "off"
  /\ subscribed = FALSE
  /\ subscribeIssued = FALSE
  /\ listening = FALSE
  /\ now = ClockStart
  /\ nextId = 1
  /\ store = <<>>
  /\ inflight = {}
  /\ last = NoEvent

\* the server clock advances between any two steps
Tick ==
  /\ pc # "exited"
  /\ now < MaxClock
  /\ now' = now + 1
  /\ UNCHANGED <<pc, enableMqtt, mongoConnected, mqttState, subscribed, subscribeIssued, listening,
                 nextId, store, inflight, last>>

\* ------------------------------------------------------------- startServer
\* await mongoose.connect(...) resolves
StartConnectOk ==
  /\ pc = "connect"
  /\ mongoConnected' = TRUE
  /\ pc' = "setupMQTT"
  /\ UNCHANGED <<enableMqtt, mqttState, subscribed, subscribeIssued, listening, now, nextId, store,
                 inflight, last>>

\* await mongoose.connect(...) rejects: catch, process.exit(1)
StartConnectFail ==
  /\ pc = "connect"
  /\ pc' = "exited"
  /\ UNCHANGED <<enableMqtt, mongoConnected, mqttState, subscribed, subscribeIssued, listening, now,
                 nextId, store, inflight, last>>

\* mutant: mongoose.connect is not awaited, the bootstrap goes on at once
StartSetupMQTT_NoAwait ==
  /\ pc \in {"connect", "setupMQTT"}
  /\ mqttState' = IF enableMqtt THEN "connecting" ELSE mqttState
  /\ pc' = "listen"
  /\ UNCHANGED <<enableMqtt, mongoConnected, subscribed, subscribeIssued, listening, now, nextId,
                 store, inflight, last>>

\* if (process.env.ENABLE_MQTT === "true") setupMQTT()
StartSetupMQTT ==
  /\ pc = "setupMQTT"
  /\ mqttState' = IF enableMqtt THEN "connecting" ELSE mqttState
  /\ pc' = "listen"
  /\ UNCHANGED <<enableMqtt, mongoConnected, subscribed, subscribeIssued, listening, now, nextId,
                 store, inflight, last>>

\* app.listen(PORT, ...)
StartListen ==
  /\ pc = "listen"
  /\ listening' = TRUE
  /\ pc' = "running"
  /\ UNCHANGED <<enableMqtt, mongoConnected, mqttState, subscribed, subscribeIssued, now, nextId,
                 store, inflight, last>>

\* ------------------------------------------------------------ MQTT adapter
\* mutant: the connect handler only logs, it does not subscribe
MqttOnConnect_NoSubscribe ==
  /\ pc = "running"
  /\ mqttState = "connecting"
  /\ mqttState' = "connected"
  /\ UNCHANGED <<pc, enableMqtt, mongoConnected, subscribed, subscribeIssued,
                 listening, now, nextId, store, inflight, last>>

\* client.on("connect"): subscribe to iot/sensor/+/temperature; the broker
\* grants the subscription or the callback receives an error
MqttOnConnect ==
  /\ pc = "running"
  /\ mqttState = "connecting"
  /\ mqttState' = "connected"
  /\ subscribeIssued' = TRUE
  /\ \E granted \in BOOLEAN : subscribed' = granted
  /\ UNCHANGED <<pc, enableMqtt, mongoConnected, listening, now, nextId, store,
                 inflight, last>>

\* the connection is lost; the client reconnects by itself
MqttClose ==
  /\ pc = "running"
  /\ mqttState = "connected"
  /\ mqttState' = "connecting"
  /\ subscribed' = FALSE
  /\ subscribeIssued' = FALSE
  /\ UNCHANGED <<pc, enableMqtt, mongoConnected, listening, now, nextId, store,
                 inflight, last>>

BusInput(topic, bodyKind, temperature, timestamp) ==
  [topic |-> topic, bodyKind |-> bodyKind, deviceId |-> Absent,
   temperature |-> IF bodyKind = "object" THEN temperature ELSE Absent,
   timestamp |-> IF bodyKind = "object" THEN timestamp ELSE Absent]

\* mutant: the device is read from the wrong topic level, parts[1]
TopicDeviceId_WrongLevel(topic) ==
  LET parts == Split(topic) IN IF Len(parts) >= 2 THEN Str(parts[2]) ELSE Absent

\* const parts = topic.split("/"); const deviceId = parts[2]
TopicDeviceId(topic) ==
  LET parts == Split(topic) IN IF Len(parts) >= 3 THEN Str(parts[3]) ELSE Absent

\* mutant: the document takes the timestamp of the body when it has one
MqttCandidate_BodyTimestamp(input, t) ==
  [deviceId |-> TopicDeviceId(input.topic),
   temperature |-> ParseFloat(input.temperature),
   timestamp |-> IF input.timestamp.kind = "num" THEN input.timestamp.n ELSE t]

\* the document Sensor.create is called with
MqttCandidate(input, t) ==
  [deviceId |-> TopicDeviceId(input.topic),
   temperature |-> ParseFloat(input.temperature),
   timestamp |-> t]

\* client.on("message"), up to the await: JSON.parse throws on a body that is
\* not JSON, data.temperature throws on null; otherwise Sensor.create starts
MqttOnMessage(input) ==
  /\ pc = "running"
  /\ mqttState = "connected"
  /\ subscribed
  /\ IF input.bodyKind # "object"
     THEN /\ last' = Event("mqtt", IF input.bodyKind = "garbage" THEN "SyntaxError"
                                   ELSE "TypeError", input, 0, NoRec)
          /\ UNCHANGED <<nextId, inflight>>
     ELSE /\ nextId <= MaxDocs
          /\ inflight' = inflight \cup
               {[src |-> "mqtt", id |-> nextId, cand |-> MqttCandidate(input, now),
                 createdAt |-> now, input |-> input, t0 |-> now]}
          /\ nextId' = nextId + 1
          /\ UNCHANGED last
  /\ UNCHANGED <<pc, enableMqtt, mongoConnected, mqttState, subscribed, subscribeIssued, listening,
                 now, store>>

\* client.on("message"), after the await: Sensor.create resolved (logged as
\* saved) or rejected with a validation or store error (caught and logged
\* with the error)
MqttCreateDone(op, storeOk) ==
  /\ pc = "running"
  /\ op \in inflight
  /\ op.src = "mqtt"
  /\ inflight' = inflight \ {op}
  /\ IF ~SensorSchemaOk(op.cand)
     THEN /\ store' = store
          /\ last' = Event("mqtt", "ValidationError", op.input, 0, NoRec)
     ELSE IF storeOk
     THEN /\ store' = InsertOne(store, RecordOf(op))
          /\ last' = Event("mqtt", "saved", op.input, op.t0, RecordOf(op))
     ELSE /\ store' = store
          /\ last' = Event("mqtt", "StoreError", op.input, 0, NoRec)
  /\ UNCHANGED <<pc, enableMqtt, mongoConnected, mqttState, subscribed, subscribeIssued, listening,
                 now, nextId>>

\* --------------------------------------------------------- REST controller
RestInput(deviceId, temperature, timestamp) ==
  [topic |-> <<>>, bodyKind |-> "object", deviceId |-> deviceId,
   temperature |-> temperature, timestamp |-> timestamp]

\* mutant: the document is stamped with the server time, as on the bus path
RestCandidate_ServerTime(input, t) ==
  [deviceId |-> input.deviceId, temperature |-> input.temperature, timestamp |-> t]

\* new Sensor({ deviceId, temperature, timestamp }) of the validated body
RestCandidate(input, t) ==
  [deviceId |-> input.deviceId,
   temperature |-> input.temperature,
   timestamp |-> ZodTimestamp(input.timestamp, t)]

\* ingestReading, up to the await: a ZodError is answered 400 at once;
\* otherwise the document is built and save() starts
IngestReading(input) ==
  /\ listening
  /\ IF ~IngestSchemaOk(input)
     THEN /\ last' = Event("rest", "400", input, 0, NoRec)
          /\ UNCHANGED <<nextId, inflight>>
     ELSE /\ nextId <= MaxDocs
          /\ inflight' = inflight \cup
               {[src |-> "rest", id |-> nextId, cand |-> RestCandidate(input, now),
                 createdAt |-> now, input |-> input, t0 |-> now]}
          /\ nextId' = nextId + 1
          /\ UNCHANGED last
  /\ UNCHANGED <<pc, enableMqtt, mongoConnected, mqttState, subscribed, subscribeIssued, listening,
                 now, store>>

\* mutant: save() is not awaited, 201 is sent whatever becomes of the save
IngestReadingDone_NotAwaited(op, storeOk) ==
  /\ listening
  /\ op \in inflight
  /\ op.src = "rest"
  /\ inflight' = inflight \ {op}
  /\ store' = IF SensorSchemaOk(op.cand) /\ storeOk
               THEN InsertOne(store, RecordOf(op)) ELSE store
  /\ last' = Event("rest", "201", op.input, op.t0, RecordOf(op))
  /\ UNCHANGED <<pc, enableMqtt, mongoConnected, mqttState, subscribed, subscribeIssued,
                 listening, now, nextId>>

\* ingestReading, after the await: save() resolved (201), rejected with a
\* mongoose ValidationError (400) or with a store error (next(error), 500)
IngestReadingDone(op, storeOk) ==
  /\ listening
  /\ op \in inflight
  /\ op.src = "rest"
  /\ inflight' = inflight \ {op}
  /\ IF ~SensorSchemaOk(op.cand)
     THEN /\ store' = store
          /\ last' = Event("rest", "400", op.input, 0, NoRec)
     ELSE IF storeOk
     THEN /\ store' = InsertOne(store, RecordOf(op))
          /\ last' = Event("rest", "201", op.input, op.t0, RecordOf(op))
     ELSE /\ store' = store
          /\ last' = Event("rest", "500", op.input, 0, NoRec)
  /\ UNCHANGED <<pc, enableMqtt, mongoConnected, mqttState, subscribed, subscribeIssued, listening,
                 now, nextId>>

GetInput(d) ==
  [topic |-> <<>>, bodyKind |-> "none", deviceId |-> Str(d),
   temperature |-> Absent, timestamp |-> Absent]

\* getLatestReading: 404 when the query finds nothing, else 200 with the record
GetLatestReading(d) ==
  /\ listening
  /\ IF FindOneSorted(d) = {}
     THEN last' = Event("get", "404", GetInput(d), 0, NoRec)
     ELSE \E r \in FindOneSorted(d) :
            last' = Event("get", "200", GetInput(d), 0, r)
  /\ UNCHANGED <<pc, enableMqtt, mongoConnected, mqttState, subscribed, subscribeIssued, listening,
                 now, nextId, store, inflight>>

\* --------------------------------------------------------------------- Next
RestInputs ==
  {RestInput(d, v, t) : d \in RestDeviceIds, v \in RestTemperatures, t \in RestTimestamps}
BusInputs ==
  {BusInput(tp, k, v, t) : tp \in BusTopics, k \in BodyKinds, v \in BusTemperatures,
                           t \in BusTimestamps}

Next ==
  \/ Tick
  \/ StartConnectOk
  \/ StartConnectFail
  \/ StartSetupMQTT
  \/ StartListen
  \/ MqttOnConnect
  \/ MqttClose
  \/ \E input \in BusInputs : MqttOnMessage(input)
  \/ \E op \in inflight, storeOk \in BOOLEAN : MqttCreateDone(op, storeOk)
  \/ \E input \in RestInputs : IngestReading(input)
  \/ \E op \in inflight, storeOk \in BOOLEAN : IngestReadingDone(op, storeOk)
  \/ \E d \in DeviceNames : GetLatestReading(d)

Spec == Init /\ [][Next]_vars

\* ================================================================== claims
\* the step that completes the REST ingest / the bus message of document op
RestDone(op) == op \in inflight /\ op.src = "rest" /\ inflight' = inflight \ {op}
BusDone(op) == op \in inflight /\ op.src = "mqtt" /\ inflight' = inflight \ {op}
\* a latest(d) answered right after the REST ingest that stored last.rec
LatestAfterIngest ==
  /\ last.kind = "rest" /\ last.outcome = "201"
  /\ last'.kind = "get" /\ last'.input.deviceId = Str(last.rec.deviceId)
\* the timestamp the input asks for: its own, or the server time t
InputTimestamp(input, t) == IF input.timestamp.kind = "num" THEN input.timestamp.n ELSE t
\* an accepted REST ingest appends one record carrying the input's fields
IngestStoresInput(op) ==
  (RestDone(op) /\ last'.outcome = "201") =>
     /\ store' = Append(store, last'.rec)
     /\ last'.rec.deviceId = op.input.deviceId.s
     /\ last'.rec.temperature = op.input.temperature.n
     /\ last'.rec.timestamp = InputTimestamp(op.input, op.t0)
NewerThanOthers(r) ==
  \A q \in RecordsOf(r.deviceId) : q # r => q.timestamp < r.timestamp

\* no other record of the device shares the timestamp of r
NoTie(r) == \A q \in RecordsOf(r.deviceId) : q # r => q.timestamp # r.timestamp

C2_LatestIsMaxTimestamp ==
  (last.kind = "get" /\ last.outcome = "200") =>
     /\ last.rec \in StoreRecords
     /\ Str(last.rec.deviceId) = last.input.deviceId
     /\ \A i \in 1..Len(store) :
          Str(store[i].deviceId) = last.input.deviceId
            => store[i].timestamp <= last.rec.timestamp

\* C2 witness: the newer reading (t2) was inserted before the older one (t1)
\* and latest answered the newer one.
C2_Witness ==
  /\ last.kind = "get" /\ last.outcome = "200"
  /\ Len(store) = 2
  /\ store[1].deviceId = store[2].deviceId
  /\ store[1].timestamp > store[2].timestamp
  /\ last.rec = store[1]

\* C3: when several records of the device share the timestamp latest
\* answers, the answer is the one persisted later, with the greatest
\* created_at.
C3_TieBrokenByCreatedAt ==
  (last.kind = "get" /\ last.outcome = "200") =>
     \A i \in 1..Len(store) :
        (/\ Str(store[i].deviceId) = last.input.deviceId
         /\ store[i].timestamp = last.rec.timestamp)
        => store[i].createdAt <= last.rec.createdAt

\* the raw reading a bus message carries: device_id in the topic, value and
\* timestamp in the body
BusReading(input) ==
  [topic |-> <<>>, bodyKind |-> "object",
   deviceId |-> Str(CHOOSE d \in DeviceNames \cup {EmptyString} : input.topic = TopicOf(d)),
   temperature |-> input.temperature, timestamp |-> input.timestamp]
\* the REST endpoint accepts the reading: both validations pass
RestAccepts(input) == IngestSchemaOk(input) /\ SensorSchemaOk(RestCandidate(input, 0))

\* C4: a reading submitted as a bus message has the accept/reject outcome it
\* has on the REST endpoint and, when accepted, is stored with the device_id,
\* value and timestamp the REST endpoint stores (store failures aside).
C4_SameSemantics ==
  (last.kind = "mqtt" /\ last.input.bodyKind = "object" /\ last.outcome # "StoreError") =>
     /\ last.outcome = "ValidationError" <=> ~RestAccepts(BusReading(last.input))
     /\ last.outcome = "saved" =>
          LET c == RestCandidate(BusReading(last.input), last.t0)
          IN /\ last.rec.deviceId = c.deviceId.s
             /\ last.rec.temperature = c.temperature.n
             /\ last.rec.timestamp = c.timestamp

\* C5: an ingest whose value is not a number, on either path, ends in a
\* validation error (400, or a logged drop) and persists nothing (store
\* failures aside).
C5_NonNumericRejected ==
  (/\ last.kind \in {"rest", "mqtt"} /\ last.input.temperature.kind # "num"
   /\ last.outcome \notin {"500", "StoreError"}) =>
     /\ last.outcome \in {"400", "ValidationError", "SyntaxError", "TypeError"}
     /\ last.rec = NoRec

\* the device_id of the input is missing or empty
NoDeviceId(ev) ==
  \/ ev.kind = "rest" /\ ev.input.deviceId \in {Absent, Str(EmptyString)}
  \/ ev.kind = "mqtt" /\ ev.input.topic = TopicOf(EmptyString)

\* C6: an ingest whose device_id is missing or empty ends in a validation
\* error (the body of a bus message permitting) and persists nothing; no
\* persisted record has an empty device_id.
C6_DeviceIdRequired ==
  /\ NoDeviceId(last) =>
       /\ last.outcome \in {"400", "ValidationError", "SyntaxError", "TypeError"}
       /\ last.rec = NoRec
  /\ \A i \in 1..Len(store) : store[i].deviceId # EmptyString

\* C6 witness: a bus message with a numeric value on a topic with an empty
\* device level was dropped with a validation error.
C6_Witness ==
  /\ last.kind = "mqtt"
  /\ last.input.topic = TopicOf(EmptyString)
  /\ last.input.temperature = Num(20)
  /\ last.outcome = "ValidationError"

TemperatureMin == -50
TemperatureMax == 100

\* C7: every persisted reading has a temperature within [-50, 100]; an
\* ingest outside the range is answered 400 and not persisted.
C7_TemperatureRange ==
  /\ \A i \in 1..Len(store) :
       TemperatureMin <= store[i].temperature /\ store[i].temperature <= TemperatureMax
  /\ (/\ last.kind = "rest"
      /\ last.input.temperature.kind = "num"
      /\ (last.input.temperature.n < TemperatureMin \/ last.input.temperature.n > TemperatureMax))
     => last.outcome = "400"

\* the body of the bus message parsed to a field bag with a numeric value
NumericBody(input) == input.bodyKind = "object" /\ input.temperature.kind = "num"
\* the step stores one new record with device_id d and the value of input
GainsRecord(d, input) ==
  /\ store' = Append(store, last'.rec)
  /\ Len(store') = Len(store) + 1
  /\ last'.rec.deviceId = d
  /\ last'.rec.temperature = input.temperature.n

\* C8 (as stated): every bus message on a topic iot/sensor/<d>/temperature
\* whose body is a field bag with a numeric value adds exactly one record,
\* with device_id d and the value of the body.
C8_Stated ==
  [][\A op \in inflight : \A d \in DeviceNames \cup {EmptyString} :
       (BusDone(op) /\ op.input.topic = TopicOf(d) /\ NumericBody(op.input))
         => GainsRecord(d, op.input)]_vars

\* C8 (amended): every bus message on a topic iot/sensor/<d>/temperature with a
\* non-empty d, whose body is a field bag with a numeric value and whose
\* insert the store does not fail, adds exactly one record, with device_id d
\* and the value of the body.
C8_BusMessageStored ==
  [][\A op \in inflight : \A d \in DeviceNames :
       (/\ BusDone(op) /\ op.input.topic = TopicOf(d) /\ NumericBody(op.input)
        /\ last'.outcome # "StoreError")
         => GainsRecord(d, op.input)]_vars

\* C8 witness: the message {temperature: 20} on iot/sensor/s2/temperature was
\* saved as a record of device s2 with value 20.
C8_Witness ==
  /\ last.kind = "mqtt" /\ last.outcome = "saved"
  /\ last.input.topic = TopicOf(<<"s2">>)
  /\ last.input.temperature = Num(20)
  /\ last.rec \in StoreRecords
  /\ last.rec.deviceId = <<"s2">>
  /\ last.rec.temperature = 20

\* a bus message the validation contract rejects: the body is not a field
\* bag, the device level is empty or the value is not a number
Malformed(input) ==
  \/ input.bodyKind # "object"
  \/ input.topic = TopicOf(EmptyString)
  \/ input.temperature.kind # "num"

\* C9: a malformed bus message or a failed insert is dropped without a record
\* and without stopping the handler; a well-formed message is persisted,
\* whatever failed before it.
C9_DropAndContinue ==
  [][/\ (last'.kind = "mqtt" /\ last'.outcome # "saved")
          => (store' = store /\ pc' = "running")
     /\ \A op \in inflight : BusDone(op) =>
          /\ pc' = "running"
          /\ IF Malformed(op.input) \/ last'.outcome = "StoreError"
             THEN store' = store
             ELSE store' = Append(store, last'.rec) /\ last'.outcome = "saved"]_vars

\* What the handler does keep of C9: every message the handler fails on leaves
\* the store as it was and the process running, and a message with a numeric
\* value and a device is persisted unless the store fails.
BusHandlerContinues ==
  [][/\ (last'.kind = "mqtt" /\ last'.outcome # "saved")
          => (store' = store /\ pc' = "running")
     /\ \A op \in inflight : BusDone(op) =>
          /\ pc' = "running"
          /\ (~Malformed(op.input) /\ last'.outcome # "StoreError")
               => (store' = Append(store, last'.rec) /\ last'.outcome = "saved")]_vars

\* C10: the bus client is created and the HTTP server listens only once the
\* store connection is established; when the connection fails the process
\* exits with neither started.
C10_StartupOrdering ==
  /\ (mqttState # "off" \/ subscribed \/ listening) => mongoConnected
  /\ pc = "exited" => (~mongoConnected /\ mqttState = "off" /\ ~subscribed /\ ~listening)
  /\ (inflight # {} \/ store # <<>>) => mongoConnected

\* C10 witness: the server listens and the subscription is active, with the
\* store connected.
C10_Witness ==
  /\ pc = "running" /\ listening /\ mqttState = "connected" /\ subscribed
  /\ mongoConnected

\* C11: whenever the client is connected, the connect handler has issued the
\* subscription on the current connection: the first connect and every
\* reconnect subscribe again, and a lost connection leaves no subscription.
C11_SubscribeOnEveryConnect ==
  /\ mqttState = "connected" => subscribeIssued
  /\ subscribeIssued => mqttState = "connected"
  /\ subscribed => subscribeIssued

\* C11 witness: a message was handled on an earlier connection, the
\* connection was lost, and on the present connection the subscription has
\* been issued again (and not yet granted).
C11_Witness ==
  /\ last.kind = "mqtt"
  /\ mqttState = "connected"
  /\ subscribeIssued
  /\ ~subscribed

Accepted(op) == (RestDone(op) \/ BusDone(op)) /\ last'.outcome \in {"201", "saved"}

\* C13: every accepted ingest adds one record with a fresh identifier, also
\* when a record with the same (device_id, timestamp) is stored already: n
\* ingests of one reading leave n records with distinct identifiers.
C13_DuplicatesStored ==
  [][/\ \A op \in inflight : Accepted(op) =>
          /\ Len(store') = Len(store) + 1
          /\ store'[Len(store')] = last'.rec
          /\ \A i \in 1..Len(store) : store'[i] = store[i]
     /\ \A i, j \in 1..Len(store') : i # j => store'[i].id # store'[j].id]_vars

\* C13 witness: the store holds two records with one device_id, value and
\* timestamp and two identifiers, the second from a bus message.
C13_Witness ==
  /\ Len(store) = 2
  /\ store[1].deviceId = store[2].deviceId
  /\ store[1].timestamp = store[2].timestamp
  /\ store[1].temperature = store[2].temperature
  /\ store[1].id # store[2].id
  /\ last.kind = "mqtt" /\ last.outcome = "saved" /\ last.rec = store[2]

\* C14: the store is append-only: every step of the REST adapter, the bus
\* adapter and the retrieval path keeps each persisted record in place with
\* its id, device_id, value, timestamp and created_at.
C14_AppendOnly ==
  [][/\ Len(store') >= Len(store)
     /\ \A i \in 1..Len(store) :
          /\ store'[i].id = store[i].id
          /\ store'[i].deviceId = store[i].deviceId
          /\ store'[i].temperature = store[i].temperature
          /\ store'[i].timestamp = store[i].timestamp
          /\ store'[i].createdAt = store[i].createdAt]_vars

\* C14 witness: two records were persisted, the first one before the second,
\* and a latest of their device was answered afterwards.
C14_Witness ==
  /\ Len(store) = 2
  /\ store[1].id = 1 /\ store[2].id = 2
  /\ last.kind = "get" /\ last.outcome = "200"
  /\ last.rec = store[2]

\* C15: latest leaves the store unchanged, and two latest calls of one device
\* with no insert completing in between give identical results, also when
\* several records of the device share the maximum timestamp.
C15_ReadsIdempotent ==
  [][/\ (last'.kind = "get" /\ last' # last) => store' = store
     /\ (last.kind = "get" /\ last'.kind = "get" /\ last'.input = last.input)
          => (last'.outcome = last.outcome /\ last'.rec = last.rec)]_vars

\* the record carries the fields of the request of op and of no other
OwnFields(op, r) ==
  /\ r.id = op.id
  /\ r.createdAt = op.createdAt
  /\ IF op.src = "rest"
     THEN /\ r.deviceId = op.input.deviceId.s
          /\ r.temperature = op.input.temperature.n
          /\ r.timestamp = InputTimestamp(op.input, op.t0)
     ELSE /\ op.input.topic = TopicOf(r.deviceId)
          /\ op.input.temperature.kind = "num" => r.temperature = op.input.temperature.n
          /\ r.timestamp = op.t0

\* C16: under every interleaving of REST ingests, bus ingests and latest
\* reads, an accepted ingest adds exactly one record, made of the fields of
\* its own request; a rejected one adds none; no other step changes the
\* store; and a latest read answers a whole record of the store.
C16_InterleavedIngestsAtomic ==
  [][/\ \A op \in inflight : Accepted(op) =>
          (store' = Append(store, last'.rec) /\ OwnFields(op, last'.rec))
     /\ \A op \in inflight :
          ((RestDone(op) \/ BusDone(op)) /\ ~Accepted(op)) => store' = store
     /\ store' # store => \E op \in inflight : Accepted(op)
     /\ (last'.kind = "get" /\ last'.outcome = "200")
          => \E i \in 1..Len(store') : last'.rec = store'[i]]_vars

\* C16 witness: a bus message and a later ingest of the same device were in
\* flight together, the later one was persisted first, and a latest read
\* answered it while the bus message was still in flight.
C16_Witness ==
  /\ last.kind = "get" /\ last.outcome = "200"
  /\ Len(store) = 1 /\ store[1].id = 2 /\ last.rec = store[1]
  /\ \E op \in inflight :
       op.id = 1 /\ op.src = "mqtt" /\ op.cand.deviceId = Str(store[1].deviceId)

\* the bus documents whose Sensor.create has not completed
BusInflight == {op \in inflight : op.src = "mqtt"}

C18_ResponseMatchesStore ==
  [][/\ \A op \in inflight : RestDone(op) =>
          /\ last'.kind = "rest"
          /\ last'.outcome \in {"201", "400", "500"}
          /\ last'.outcome = "201" <=> Len(store') = Len(store) + 1
          /\ last'.outcome = "201" =>
               (store' = Append(store, last'.rec) /\ last'.rec.id = op.id)
          /\ last'.outcome # "201" => (store' = store /\ last'.rec = NoRec)
          /\ (store' = store /\ IngestSchemaOk(op.input)) => last'.outcome = "500"
     /\ (last'.kind = "rest" /\ last'.outcome = "400") => store' = store]_vars

\* C18 witness: one request was persisted and answered 201, and a later valid
\* request whose save the store failed was answered 500 and left the store
\* as it was.
C18_Witness ==
  /\ last.kind = "rest" /\ last.outcome = "500"
  /\ IngestSchemaOk(last.input)
  /\ Len(store) = 1
  /\ inflight = {}

====
